---------------------------- MODULE Spec2Model ----------------------------
(***************************************************************************)
(* A model of the two conversion scripts of the repository:               *)
(*   src/Python/csv_to_excel.py  (sanitize_name,                          *)
(*                                validate_and_create_output_folder,      *)
(*                                combine_csvs)                           *)
(*   src/Python/excel_to_csv.py  (__main__, extract_sheets_to_csv)        *)
(*                                                                         *)
(* Strings are sequences of character codes (97 = "a", 46 = ".", ...), so *)
(* that re.sub, slicing, str.startswith, str.endswith, chr() and          *)
(* os.path.splitext are computed character by character.  A path is a     *)
(* sequence of components, each component a string; <<>> is the root "/". *)
(***************************************************************************)
EXTENDS Integers, Sequences, FiniteSets, TLC

VARIABLES
    \* ---- sanitize_name applied to one input (csv_to_excel.py:96-111)
    sName,        \* the raw name
    sMaxLength,   \* the max_length argument
    sResult,      \* the returned string, NoResult before the call
    \* ---- combine_csvs (csv_to_excel.py:168-255) and the file system it acts on
    pc,           \* position of combine_csvs
    inPath,       \* path: absolute input directory (line 185)
    outFolder,    \* os.path.dirname(output_path) (lines 128, 192)
    outName,      \* file name of output_path
    dirs,         \* directories that exist
    plain,        \* paths that exist and are not directories
    unwritable,   \* directories in which no file can be created
    probes,       \* folders that hold a ".write_test.tmp" file
    saved,        \* workbooks written by wb.save
    dirs0,        \* the directories that existed when the run began
    raised,       \* the exception that ended the run, "none" otherwise
    listing,      \* os.listdir(path): the files of the input directory
    ignore,       \* ignore_csvs
    idx,          \* index in listing of the next file of the for loop
    wb,           \* the workbook: its sheets in order
    errored,      \* indices of the files whose processing raised
    seen,         \* indices of the files the for loop has reached
    saveCount,    \* number of wb.save calls made
    \* ---- excel_to_csv.py: __main__ and extract_sheets_to_csv
    epc,          \* position of the script
    eArgs,        \* the command line
    book,         \* the workbook load_workbook returns: its sheets in order
    eIdx,         \* index in book of the next sheet of the for loop
    eFiles,       \* CSV files in the output folder: name -> [rows, sep]
    eErrored      \* indices of the sheets whose processing raised

svars == <<sName, sMaxLength, sResult>>
cvars == <<pc, inPath, outFolder, outName, dirs, plain, unwritable, probes, saved,
           dirs0, raised, listing, ignore, idx, wb, errored, seen, saveCount>>
evars == <<epc, eArgs, book, eIdx, eFiles, eErrored>>
vars == <<svars, cvars, evars>>

(***************************************************************************)
(* Bounds of the model.                                                    *)
(***************************************************************************)
MaxStrLen == 5      \* longest raw name enumerated character by character
MaxParam == 5       \* largest max_length tried besides the default
MaxStemLen == 33    \* longest file-name stem (the default limit is 31)
MaxFiles == 2       \* files in the input directory
MaxCols == 27       \* columns of the widest CSV
MaxRows == 2        \* data rows of the longest CSV
MaxSheets == 2      \* sheets of a workbook

(***************************************************************************)
(* Characters and strings.                                                 *)
(***************************************************************************)
Str(n, c) == [i \in 1..n |-> c]

Digits == 48..57
Upper == 65..90
Lower == 97..122
Underscore == 95
Dot == 46
\* Latin-1 code points above 127 that are alphanumeric in the Unicode
\* database; Python 3 str patterns match them with \w.
IsUnicodeWord(c) ==
    \/ c \in {170, 178, 179, 181, 185, 186, 188, 189, 190}
    \/ c \in 192..214
    \/ c \in 216..246
    \/ c \in 248..255

\* r"\w" of a str pattern
IsWordChar(c) ==
    \/ c \in Digits
    \/ c \in Upper
    \/ c \in Lower
    \/ c = Underscore
    \/ IsUnicodeWord(c)

\* s[:k] of a Python string, negative k counted from the end
SliceTo(s, k) ==
    LET n == IF k >= 0 THEN (IF k < Len(s) THEN k ELSE Len(s))
                       ELSE (IF Len(s) + k > 0 THEN Len(s) + k ELSE 0)
    IN  SubSeq(s, 1, n)

StartsWith(s, prefix) ==
    /\ Len(prefix) <= Len(s)
    /\ SubSeq(s, 1, Len(prefix)) = prefix

EndsWith(s, suffix) ==
    /\ Len(suffix) <= Len(s)
    /\ SubSeq(s, Len(s) - Len(suffix) + 1, Len(s)) = suffix

Ellipsis == <<Dot, Dot, Dot>>

\* re.sub(r"[^\w]", "_", name)
Substitute(name) == [i \in 1..Len(name) |-> IF IsWordChar(name[i]) THEN name[i] ELSE Underscore]

\* A slip in the cut: the three characters of "..." are not reserved.
TruncateNoReserve(sanitized, max_length) ==
    IF Len(sanitized) > max_length
    THEN SliceTo(sanitized, max_length) \o Ellipsis
    ELSE sanitized

\* (sanitized[:max_length - 3] + "...") if len(sanitized) > max_length else sanitized
Truncate(sanitized, max_length) ==
    IF Len(sanitized) > max_length
    THEN SliceTo(sanitized, max_length - 3) \o Ellipsis
    ELSE sanitized

DefaultMaxLength == 31

sanitize_name(name, max_length) == Truncate(Substitute(name), max_length)

(***************************************************************************)
(* sanitize_name as a one-step program: the inputs are drawn in the initial*)
(* state, the call is the only action.                                     *)
(***************************************************************************)
NoResult == <<-1>>

\* space, "-", ".", "_", "a", "Z", "7", the multiplication sign, e-acute
Alphabet == {32, 45, Dot, Underscore, 97, 90, 55, 215, 233}
ShortAlphabet == {45, Dot, 97, 233}

RECURSIVE StringsOver(_, _)
StringsOver(A, n) ==
    IF n = 0 THEN {<<>>}
    ELSE LET shorter == StringsOver(A, n - 1)
         IN  shorter \cup {Append(s, c) : s \in {t \in shorter : Len(t) = n - 1}, c \in A}

\* names long enough for the default limit to cut them, one per character
LongNames == {Str(n, c) : n \in (DefaultMaxLength - 1)..MaxStemLen, c \in Alphabet}

SanitizeInputs ==
    {<<s, m>> : s \in StringsOver(ShortAlphabet, MaxStrLen), m \in 3..MaxParam}
    \cup {<<s, DefaultMaxLength>> : s \in LongNames \cup StringsOver(Alphabet, 2)}

CallSanitize ==
    /\ sResult = NoResult
    /\ sResult' = sanitize_name(sName, sMaxLength)
    /\ UNCHANGED <<sName, sMaxLength>>
    /\ UNCHANGED <<cvars, evars>>

(***************************************************************************)
(* Paths.  os.path.abspath has been applied (lines 133, 134, 185, 192), so *)
(* a path is its list of components and its string is "/" + "/".join().   *)
(***************************************************************************)
Slash == 47
Root == <<>>

RECURSIVE JoinComponents(_)
JoinComponents(p) ==
    IF p = <<>> THEN <<>> ELSE <<Slash>> \o Head(p) \o JoinComponents(Tail(p))

\* the absolute path as a string
PathStr(p) == IF p = Root THEN <<Slash>> ELSE JoinComponents(p)

\* os.path.dirname of an absolute path
dirname(p) == IF p = Root THEN Root ELSE SubSeq(p, 1, Len(p) - 1)

Prefixes(p) == {SubSeq(p, 1, k) : k \in 0..Len(p)}

\* os.path.exists
Exists(p) == p \in dirs \cup plain

\* line 139: output_folder_abs.startswith(input_path_abs)
\*           or os.path.dirname(output_folder_abs) == os.path.dirname(input_path_abs)
CreationAllowed(output_folder_abs, input_path_abs) ==
    \/ StartsWith(PathStr(output_folder_abs), PathStr(input_path_abs))
    \/ PathStr(dirname(output_folder_abs)) = PathStr(dirname(input_path_abs))

\* os.makedirs creates every missing ancestor from the top; the first mkdir
\* fails when the deepest existing ancestor is not a directory or is not
\* writable.  Directories it creates are writable by their creator.
DeepestExisting(p) ==
    CHOOSE q \in Prefixes(p) :
        /\ Exists(q)
        /\ \A r \in Prefixes(p) : Exists(r) => Len(r) <= Len(q)

MakedirsSucceeds(p) ==
    /\ DeepestExisting(p) \in dirs
    /\ DeepestExisting(p) \notin unwritable

(***************************************************************************)
(* validate_and_create_output_folder, lines 128-152: the existence test,   *)
(* the child-or-sibling rule and the creation of the folder.  combine_csvs *)
(* catches whatever it raises (lines 194-198) and returns.                 *)
(* The early return of lines 129-130 needs an output path without a folder,*)
(* which os.path.abspath (line 192) never produces.                        *)
(***************************************************************************)
CheckFolder ==
    /\ pc = "start"
    /\ IF ~Exists(outFolder)
       THEN IF CreationAllowed(outFolder, inPath)
            THEN IF MakedirsSucceeds(outFolder)
                 THEN /\ dirs' = dirs \cup Prefixes(outFolder)
                      /\ pc' = "probe"
                      /\ raised' = raised
                 ELSE /\ pc' = "aborted"
                      /\ raised' = "OSError"
                      /\ dirs' = dirs
            ELSE /\ pc' = "aborted"
                 /\ raised' = "ValueError"
                 /\ dirs' = dirs
       ELSE /\ pc' = "probe"
            /\ UNCHANGED <<dirs, raised>>
    /\ UNCHANGED <<inPath, outFolder, outName, plain, unwritable, probes, saved, dirs0,
                   listing, ignore, idx, wb, errored, seen, saveCount>>
    /\ UNCHANGED <<svars, evars>>

(***************************************************************************)
(* Lines 155-165: the write probe.  open() fails when the folder is not a  *)
(* directory or not writable; otherwise the file is created and the write  *)
(* (a full disk) or os.remove may still fail.  Every one of these is an    *)
(* IOError, turned into PermissionError; nothing removes the file then.    *)
(***************************************************************************)
ProbeOutcomes(folder) ==
    IF folder \in plain \/ folder \in unwritable
    THEN {"open_fails"}
    ELSE {"ok", "write_fails", "remove_fails"}

Probe ==
    /\ pc = "probe"
    /\ \E outcome \in ProbeOutcomes(outFolder) :
          /\ probes' = IF outcome \in {"write_fails", "remove_fails"}
                       THEN probes \cup {outFolder}
                       ELSE probes
          /\ pc' = IF outcome = "ok" THEN "list" ELSE "aborted"
          /\ raised' = IF outcome = "ok" THEN raised ELSE "PermissionError"
    /\ UNCHANGED <<inPath, outFolder, outName, dirs, plain, unwritable, saved, dirs0,
                   listing, ignore, idx, wb, errored, seen, saveCount>>
    /\ UNCHANGED <<svars, evars>>

(***************************************************************************)
(* Lines 200-207: the workbook is created empty and os.listdir(path) is    *)
(* called; outside any try, it ends the run when path is no directory.     *)
(***************************************************************************)
ListDir ==
    /\ pc = "list"
    /\ wb' = <<>>
    /\ IF inPath \in dirs
       THEN /\ pc' = "loop"
            /\ raised' = raised
       ELSE /\ pc' = "crashed"
            /\ raised' = IF inPath \in plain THEN "NotADirectoryError"
                                              ELSE "FileNotFoundError"
    /\ idx' = 1
    /\ UNCHANGED <<inPath, outFolder, outName, dirs, plain, unwritable, probes, saved,
                   dirs0, listing, ignore, errored, seen, saveCount>>
    /\ UNCHANGED <<svars, evars>>

(***************************************************************************)
(* The for loop of combine_csvs, lines 207-247.  A file of the directory   *)
(* is its name and the shape pandas reads from it: cols column names       *)
(* (header=0) and rows data rows.                                          *)
(***************************************************************************)
DotCsv == <<Dot, 99, 115, 118>>

\* A slip in the filter: the ignore list is not consulted.
ShouldProcessNoIgnore(filename, ignore_csvs) == EndsWith(filename, DotCsv)

\* line 208: filename.endswith(".csv") and filename not in ignore_csvs
ShouldProcess(filename, ignore_csvs) ==
    EndsWith(filename, DotCsv) /\ filename \notin ignore_csvs

\* os.path.splitext(filename)[0]: cut at the last dot, unless only dots
\* come before it
Stem(filename) ==
    LET dots == {i \in 1..Len(filename) : filename[i] = Dot}
    IN  IF dots = {} THEN filename
        ELSE LET d == CHOOSE i \in dots : \A j \in dots : j <= i
             IN  IF \E i \in 1..(d - 1) : filename[i] # Dot
                 THEN SubSeq(filename, 1, d - 1)
                 ELSE filename

\* line 215: df.empty, true when either axis has length 0
Empty(f) == f.rows = 0 \/ f.cols = 0

\* line 220: sanitize_name(os.path.splitext(filename)[0]), max_length left
\* at its default
TabName(stem) == sanitize_name(stem, DefaultMaxLength)

\* line 221: sanitize_name(tab_name, max_length=31)
TableName(tab_name) == sanitize_name(tab_name, DefaultMaxLength)

\* str(n) of a natural number
RECURSIVE Decimal(_)
Decimal(n) == IF n < 10 THEN <<48 + n>> ELSE Decimal(n \div 10) \o <<48 + (n % 10)>>

\* line 237: f"A1:{chr(65 + len(df.columns) - 1)}{len(df) + 1}"
TableRange(ncols, nrows) ==
    <<65, 49, 58>> \o <<65 + ncols - 1>> \o Decimal(nrows + 1)

\* The sheet lines 224-243 build: appended counts the ws.append calls that
\* returned (the header row, then the data rows); table holds the table
\* ws.add_table registered, if that line was reached.
Sheet(i, f, tab_name, table_name, appended, withTable) ==
    [file |-> i,
     title |-> tab_name,
     cols |-> f.cols,
     appended |-> appended,
     table |-> IF withTable
               THEN <<[displayName |-> table_name, ref |-> TableRange(f.cols, f.rows)]>>
               ELSE <<>>]

\* What can happen to a file that passes the filter: it is read and added
\* ("ok", or skipped when empty), or some call of lines 214-243 raises:
\* pd.read_csv, the k+1-th ws.append, or the table registration.
Outcomes(f) ==
    {<<"ok", 0>>, <<"read_error", 0>>}
    \cup (IF Empty(f) THEN {}
          ELSE {<<"append_error", k>> : k \in 0..f.rows} \cup {<<"table_error", 0>>})

\* A slip in the handler: the exception leaves the loop and ends the run.
OnFileErrorPropagates == "crashed"

\* lines 246-247: the exception is printed and the loop goes on
OnFileError == "loop"

ProcessFile ==
    /\ pc = "loop"
    /\ idx <= Len(listing)
    /\ \E f \in {listing[idx]} :
          IF ~ShouldProcess(f.name, ignore)
          THEN UNCHANGED <<wb, errored, pc>>
          ELSE \E o \in Outcomes(f), stem \in {Stem(f.name)} :
               \E tab_name \in {TabName(stem)} :
               \E table_name \in {TableName(tab_name)} :
                  /\ wb' = CASE o[1] = "read_error" -> wb
                             [] o[1] = "ok" /\ Empty(f) -> wb
                             [] o[1] = "ok" /\ ~Empty(f) ->
                                   Append(wb, Sheet(idx, f, tab_name, table_name,
                                                    f.rows + 1, TRUE))
                             [] o[1] = "append_error" ->
                                   Append(wb, Sheet(idx, f, tab_name, table_name,
                                                    o[2], FALSE))
                             [] o[1] = "table_error" ->
                                   Append(wb, Sheet(idx, f, tab_name, table_name,
                                                    f.rows + 1, FALSE))
                  /\ errored' = IF o[1] = "ok" THEN errored ELSE errored \cup {idx}
                  /\ pc' = IF o[1] = "ok" THEN "loop" ELSE OnFileError
    /\ idx' = idx + 1
    /\ seen' = seen \cup {idx}
    /\ UNCHANGED <<inPath, outFolder, outName, dirs, plain, unwritable, probes, saved,
                   dirs0, raised, listing, ignore, saveCount>>
    /\ UNCHANGED <<svars, evars>>

(***************************************************************************)
(* Lines 249-255: wb.save(output_path) once the loop has ended; a failure  *)
(* is printed and the function returns all the same.                       *)
(***************************************************************************)
Save ==
    /\ pc = "loop"
    /\ idx > Len(listing)
    /\ \E ok \in BOOLEAN :
          saved' = IF ok
                   THEN saved \cup {[folder |-> outFolder, name |-> outName, sheets |-> wb]}
                   ELSE saved
    /\ saveCount' = saveCount + 1
    /\ pc' = "done"
    /\ UNCHANGED <<inPath, outFolder, outName, dirs, plain, unwritable, probes, dirs0,
                   raised, listing, ignore, idx, wb, errored, seen>>
    /\ UNCHANGED <<svars, evars>>

CombineNext == CheckFolder \/ Probe \/ ListDir \/ ProcessFile \/ Save

(***************************************************************************)
(* excel_to_csv.py.  A sheet is its name, the set of its cells that hold a *)
(* value and the tables it declares, each a name and a reference string    *)
(* such as "A1:B2".  The cell at row r, column c of the i-th sheet holds   *)
(* 100*i + 10*r + c when it holds a value.                                 *)
(***************************************************************************)
None == 0
Comma == 44
Colon == 58

ToLower(s) == [i \in 1..Len(s) |-> IF s[i] \in Upper THEN s[i] + 32 ELSE s[i]]

DotXlsx == <<Dot, 120, 108, 115, 120>>

CellValue(i, sh, r, c) == IF <<r, c>> \in sh.filled THEN 100 * i + 10 * r + c ELSE None

Largest(S) == IF S = {} THEN 0 ELSE CHOOSE m \in S : \A x \in S : x <= m

\* sheet.max_row, sheet.max_column
MaxRow(sh) == Largest({rc[1] : rc \in sh.filled})
MaxColumn(sh) == Largest({rc[2] : rc \in sh.filled})

\* line 89: all(cell.value is None for row in sheet.iter_rows() for cell in row)
AllCellsNone(i, sh) ==
    \A r \in 1..MaxRow(sh) : \A c \in 1..MaxColumn(sh) : CellValue(i, sh, r, c) = None

\* lines 106-109 and 116: the values of a rectangle of cells, row by row
Rectangle(i, sh, min_row, max_row, min_col, max_col) ==
    [r \in 1..(max_row - min_row + 1) |->
        [c \in 1..(max_col - min_col + 1) |->
            CellValue(i, sh, min_row + r - 1, min_col + c - 1)]]

\* the column number of a column label: A = 1, ..., Z = 26, AA = 27, ...
RECURSIVE ColumnNumber(_)
ColumnNumber(letters) ==
    IF letters = <<>> THEN 0
    ELSE 26 * ColumnNumber(SubSeq(letters, 1, Len(letters) - 1))
         + (letters[Len(letters)] - 64)

RECURSIVE NumberOf(_)
NumberOf(digits) ==
    IF digits = <<>> THEN 0
    ELSE 10 * NumberOf(SubSeq(digits, 1, Len(digits) - 1)) + (digits[Len(digits)] - 48)

InvalidCell == [col |-> 0, row |-> 0]

\* lines 101-104: sheet[cell].row and sheet[cell].column of a coordinate
\* string, one to three letters followed by a row number
ParseCell(s) ==
    LET k == Cardinality({j \in 1..Len(s) : \A m \in 1..j : s[m] \in Upper})
        letters == SubSeq(s, 1, k)
        digits == SubSeq(s, k + 1, Len(s))
    IN  IF /\ k \in 1..3
           /\ digits # <<>>
           /\ \A j \in 1..Len(digits) : digits[j] \in Digits
           /\ NumberOf(digits) >= 1
        THEN [col |-> ColumnNumber(letters), row |-> NumberOf(digits)]
        ELSE InvalidCell

\* line 99: start_cell, end_cell = table_range.split(":"), which raises
\* unless there is exactly one colon
ColonsOf(ref) == {j \in 1..Len(ref) : ref[j] = Colon}
StartCell(ref) == SubSeq(ref, 1, (CHOOSE j \in ColonsOf(ref) : TRUE) - 1)
EndCell(ref) == SubSeq(ref, (CHOOSE j \in ColonsOf(ref) : TRUE) + 1, Len(ref))

\* lines 99-104 return without raising
RefReadable(ref) ==
    /\ Cardinality(ColonsOf(ref)) = 1
    /\ ParseCell(StartCell(ref)) # InvalidCell
    /\ ParseCell(EndCell(ref)) # InvalidCell

\* A slip in the extraction: the whole sheet is taken, whatever the reference.
TableDataWholeSheet(i, sh, ref) ==
    Rectangle(i, sh, 1, MaxRow(sh), 1, MaxColumn(sh))

\* lines 101-109
TableData(i, sh, ref) ==
    Rectangle(i, sh, ParseCell(StartCell(ref)).row, ParseCell(EndCell(ref)).row,
                     ParseCell(StartCell(ref)).col, ParseCell(EndCell(ref)).col)

\* line 116: [[cell.value for cell in row] for row in sheet.iter_rows()]
SheetData(i, sh) == Rectangle(i, sh, 1, MaxRow(sh), 1, MaxColumn(sh))

\* line 112: f"{sheet_name} - {table_name}.csv"
TableCsvName(sheet_name, table_name) ==
    sheet_name \o <<32, 45, 32>> \o table_name \o DotCsv

\* line 118: f"{sheet_name}.csv"
SheetCsvName(sheet_name) == sheet_name \o DotCsv

\* df.to_csv(os.path.join(output_folder, csv_filename), ..., sep=","):
\* the file of that name is created or replaced
WriteCsv(files, name, rows) ==
    {f \in files : f.name # name} \cup {[name |-> name, rows |-> rows, sep |-> <<Comma>>]}

\* lines 95-114 for the first k tables of the sheet, in declared order
RECURSIVE WriteTables(_, _, _, _)
WriteTables(files, i, sh, k) ==
    IF k = 0 THEN files
    ELSE WriteCsv(WriteTables(files, i, sh, k - 1),
                  TableCsvName(sh.name, sh.tables[k].name),
                  TableData(i, sh, sh.tables[k].ref))

\* The numbers of tables a sheet may get written before lines 95-114 end:
\* all of them, or fewer when a reference cannot be read or to_csv raises.
TablesWritten(sh) ==
    LET n == Len(sh.tables)
        bad == {k \in 1..n : ~RefReadable(sh.tables[k].ref)}
        limit == IF bad = {} THEN n ELSE (CHOOSE k \in bad : \A j \in bad : k <= j) - 1
    IN  0..limit

\* --delimiter was not given
NoDelimiter == <<>>

\* lines 130-133: the parser knows --filename and --output only; argparse
\* ends the script with status 2 on any other option
ParseArgs ==
    /\ epc = "start"
    /\ epc' = IF eArgs.delimiter # NoDelimiter THEN "usage_error" ELSE "check"
    /\ UNCHANGED <<eArgs, book, eIdx, eFiles, eErrored>>
    /\ UNCHANGED <<svars, cvars>>

\* lines 135-156: the file name must end in .xlsx and exist; a missing
\* output folder is created
CheckArgs ==
    /\ epc = "check"
    /\ epc' = IF /\ eArgs.filename # <<>>
                 /\ EndsWith(ToLower(eArgs.filename), DotXlsx)
                 /\ eArgs.exists
                 /\ eArgs.output \in {"none", "directory", "missing"}
              THEN "load"
              ELSE "exit_1"
    /\ UNCHANGED <<eArgs, book, eIdx, eFiles, eErrored>>
    /\ UNCHANGED <<svars, cvars>>

\* lines 72-83: load_workbook; when it raises the function returns
LoadWorkbook ==
    /\ epc = "load"
    /\ \E loaded \in BOOLEAN : epc' = IF loaded THEN "sheets" ELSE "load_failed"
    /\ eIdx' = 1
    /\ UNCHANGED <<eArgs, book, eFiles, eErrored>>
    /\ UNCHANGED <<svars, cvars>>

\* lines 85-122, one sheet
ProcessSheet ==
    /\ epc = "sheets"
    /\ eIdx <= Len(book)
    /\ LET sh == book[eIdx]
       IN  IF AllCellsNone(eIdx, sh)
           THEN UNCHANGED <<eFiles, eErrored>>
           ELSE IF sh.tables # <<>>
                THEN \E k \in TablesWritten(sh) :
                        /\ eFiles' = WriteTables(eFiles, eIdx, sh, k)
                        /\ eErrored' = IF k < Len(sh.tables)
                                       THEN eErrored \cup {eIdx}
                                       ELSE eErrored
                ELSE \E written \in BOOLEAN :
                        /\ eFiles' = IF written
                                     THEN WriteCsv(eFiles, SheetCsvName(sh.name),
                                                   SheetData(eIdx, sh))
                                     ELSE eFiles
                        /\ eErrored' = IF written THEN eErrored ELSE eErrored \cup {eIdx}
    /\ eIdx' = eIdx + 1
    /\ UNCHANGED <<epc, eArgs, book>>
    /\ UNCHANGED <<svars, cvars>>

\* the loop of line 85 has ended and the script returns
Finish ==
    /\ epc = "sheets"
    /\ eIdx > Len(book)
    /\ epc' = "done"
    /\ UNCHANGED <<eArgs, book, eIdx, eFiles, eErrored>>
    /\ UNCHANGED <<svars, cvars>>

ExtractNext == ParseArgs \/ CheckArgs \/ LoadWorkbook \/ ProcessSheet \/ Finish

(***************************************************************************)
(* Initial states.  Each specification runs one program; the variables of  *)
(* the other two stay at rest.                                             *)
(***************************************************************************)
SanitizeAtRest ==
    /\ sName = <<>>
    /\ sMaxLength = DefaultMaxLength
    /\ sResult = NoResult

CombineAtRest ==
    /\ pc = "idle"
    /\ inPath = Root
    /\ outFolder = Root
    /\ outName = <<>>
    /\ dirs = {Root}
    /\ plain = {}
    /\ unwritable = {}
    /\ probes = {}
    /\ saved = {}
    /\ dirs0 = {Root}
    /\ raised = "none"
    /\ listing = <<>>
    /\ ignore = {}
    /\ idx = 1
    /\ wb = <<>>
    /\ errored = {}
    /\ seen = {}
    /\ saveCount = 0

ExtractAtRest ==
    /\ epc = "idle"
    /\ eArgs = [filename |-> <<>>, exists |-> FALSE, output |-> "none",
                delimiter |-> NoDelimiter]
    /\ book = <<>>
    /\ eIdx = 1
    /\ eFiles = {}
    /\ eErrored = {}

\* ---- sanitize_name
SanitizeInit ==
    /\ \E in \in SanitizeInputs : sName = in[1] /\ sMaxLength = in[2]
    /\ sResult = NoResult
    /\ CombineAtRest
    /\ ExtractAtRest

SpecSanitize == SanitizeInit /\ [][CallSanitize]_vars

\* ---- combine_csvs over a file system: /p, /p/d, /p/d/s, /p/d2, /p/d2/s, /e
DirP == <<<<112>>>>
DirPD == <<<<112>>, <<100>>>>
DirPDS == <<<<112>>, <<100>>, <<115>>>>
DirPD2 == <<<<112>>, <<100, 50>>>>
DirPD2S == <<<<112>>, <<100, 50>>, <<115>>>>
DirE == <<<<101>>>>

Universe == {DirP, DirPD, DirPDS, DirPD2, DirPD2S, DirE}

\* the file systems: every directory's parent exists
DirSets ==
    {S \cup {Root} : S \in {T \in SUBSET Universe : \A q \in T : dirname(q) \in T \cup {Root}}}

InputDirs == {DirPD, DirPD2}
OutFolders == Universe \cup {Root}

\* "o.xlsx", "o.XLSX", "o.xls", "o"
OutNames == {<<111>> \o DotXlsx, <<111, Dot, 88, 76, 83, 88>>, <<111, Dot, 120, 108, 115>>,
             <<111>>}

FileA == [name |-> <<97>> \o DotCsv, cols |-> 2, rows |-> 1]

RunStart ==
    /\ pc = "start"
    /\ probes = {}
    /\ saved = {}
    /\ dirs0 = dirs
    /\ raised = "none"
    /\ idx = 1
    /\ wb = <<>>
    /\ errored = {}
    /\ seen = {}
    /\ saveCount = 0

PathsInit ==
    /\ inPath \in InputDirs
    /\ outFolder \in OutFolders
    /\ outName \in OutNames
    /\ dirs \in DirSets
    /\ plain \in {{}} \cup {{q} : q \in {r \in {inPath, outFolder} :
                                            r \notin dirs /\ dirname(r) \in dirs}}
    /\ unwritable \in {{}} \cup {{q} : q \in Prefixes(outFolder) \cap dirs}
    /\ listing \in (IF inPath \in dirs THEN {<<>>, <<FileA>>} ELSE {<<>>})
    /\ ignore = {}
    /\ RunStart
    /\ SanitizeAtRest
    /\ ExtractAtRest

Spec == PathsInit /\ [][CombineNext]_vars

\* ---- combine_csvs over the files of the input directory
\* "a.csv", "a.CSV", "b-c.csv", and two names of 31 and MaxStemLen letters
FileNames ==
    {<<97>> \o DotCsv, <<97, Dot, 67, 83, 86>>, <<98, 45, 99>> \o DotCsv,
     Str(DefaultMaxLength, 97) \o DotCsv, Str(MaxStemLen, 98) \o DotCsv}

\* header only; one row; the widest and longest
Shapes == {<<1, 0>>, <<2, 1>>, <<MaxCols, MaxRows>>}

Files == {[name |-> n, cols |-> s[1], rows |-> s[2]] : n \in FileNames, s \in Shapes}

\* the directories of at most n files, in every listing order
RECURSIVE Listings(_)
Listings(n) ==
    IF n = 0 THEN {<<>>}
    ELSE LET shorter == Listings(n - 1)
         IN  shorter \cup
             {Append(l, f) : l \in {m \in shorter : Len(m) = n - 1},
                             f \in Files}

DistinctNames(l) == \A i, j \in 1..Len(l) : i # j => l[i].name # l[j].name

IgnoreSets == {{}, {<<97>> \o DotCsv}, {<<98, 45, 99>> \o DotCsv, <<65>> \o DotCsv}}

FilesInit ==
    /\ inPath = DirPD
    /\ outFolder = DirPDS
    /\ outName = <<111>> \o DotXlsx
    /\ dirs \in {{Root, DirP, DirPD}, {Root, DirP, DirPD, DirPDS}}
    /\ plain = {}
    /\ unwritable = {}
    /\ listing \in {l \in Listings(MaxFiles) : DistinctNames(l)}
    /\ ignore \in IgnoreSets
    /\ RunStart
    /\ SanitizeAtRest
    /\ ExtractAtRest

SpecFiles == FilesInit /\ [][CombineNext]_vars

\* ---- excel_to_csv.py
\* sheets "A", "A - B" and "S"; tables "B" and "T"
SheetNames == {<<65>>, <<65, 32, 45, 32, 66>>, <<83>>}

CellSets == {{}, {<<1, 1>>}, {<<2, 2>>}, {<<1, 1>>, <<1, 2>>, <<2, 1>>, <<2, 2>>}}

\* no table; B = "A1:B1"; B = "A1:A2" and T = "B2:B2"; T = "A1"; T = "A2:C2"
TableLists ==
    {<<>>,
     <<[name |-> <<66>>, ref |-> <<65, 49, Colon, 66, 49>>]>>,
     <<[name |-> <<66>>, ref |-> <<65, 49, Colon, 65, 50>>],
       [name |-> <<84>>, ref |-> <<66, 50, Colon, 66, 50>>]>>,
     <<[name |-> <<84>>, ref |-> <<65, 49>>]>>,
     <<[name |-> <<84>>, ref |-> <<65, 50, Colon, 67, 50>>]>>}

Sheets == {[name |-> n, filled |-> c, tables |-> t] :
              n \in SheetNames, c \in CellSets, t \in TableLists}

RECURSIVE Books(_)
Books(n) ==
    IF n = 0 THEN {<<>>}
    ELSE LET shorter == Books(n - 1)
         IN  shorter \cup
             {Append(b, s) : b \in {m \in shorter : Len(m) = n - 1}, s \in Sheets}

TableNamesOf(b, i) == {b[i].tables[k].name : k \in 1..Len(b[i].tables)}

\* sheet names and table names are unique in a workbook
WellFormed(b) ==
    \A i, j \in 1..Len(b) :
        i # j => /\ b[i].name # b[j].name
                 /\ TableNamesOf(b, i) \cap TableNamesOf(b, j) = {}

\* the plain call; an upper-case extension and a new output folder; a wrong
\* extension; a missing file; an output path that is a file; --delimiter ";"
CommandLines ==
    {[filename |-> <<119>> \o DotXlsx, exists |-> TRUE, output |-> "none",
      delimiter |-> NoDelimiter],
     [filename |-> <<119, Dot, 88, 76, 83, 88>>, exists |-> TRUE, output |-> "missing",
      delimiter |-> NoDelimiter],
     [filename |-> <<119>> \o DotCsv, exists |-> TRUE, output |-> "none",
      delimiter |-> NoDelimiter],
     [filename |-> <<119>> \o DotXlsx, exists |-> FALSE, output |-> "none",
      delimiter |-> NoDelimiter],
     [filename |-> <<119>> \o DotXlsx, exists |-> TRUE, output |-> "file",
      delimiter |-> NoDelimiter],
     [filename |-> <<119>> \o DotXlsx, exists |-> TRUE, output |-> "none",
      delimiter |-> <<59>>]}

ExtractInit ==
    /\ epc = "start"
    /\ eArgs \in CommandLines
    /\ book \in {b \in Books(MaxSheets) : WellFormed(b)}
    /\ eIdx = 1
    /\ eFiles = {}
    /\ eErrored = {}
    /\ SanitizeAtRest
    /\ CombineAtRest

SpecExtract == ExtractInit /\ [][ExtractNext]_vars

(***************************************************************************)
(* The claims.                                                             *)
(***************************************************************************)
AsciiWord == (48..57) \cup (65..90) \cup (97..122) \cup {95}

IsPrefixPath(p, q) == Len(p) <= Len(q) /\ SubSeq(q, 1, Len(p)) = p

\* the folder is the input directory, below it, or beside it
ChildOrSibling(folder, input) ==
    \/ IsPrefixPath(input, folder)
    \/ (folder # Root /\ input # Root
        /\ SubSeq(folder, 1, Len(folder) - 1) = SubSeq(input, 1, Len(input) - 1))

\* C1: an output folder that is neither the input directory, nor below it,
\* nor a sibling of it is rejected with the invalid-location error
\* (ValueError), whether or not the folder exists; the run aborts.
C1_OnlyChildOrSiblingAccepted ==
    (pc # "start" /\ ~ChildOrSibling(outFolder, inPath))
        => (pc = "aborted" /\ raised = "ValueError")

Extension(filename) == SubSeq(filename, Len(Stem(filename)) + 1, Len(filename))

\* C2: an output path whose extension is not .xlsx (compared without case)
\* fails before any sheet is built, and no workbook is saved.
C2_NonXlsxOutputRejected ==
    ToLower(Extension(outName)) # DotXlsx
        => (pc \notin {"loop", "done"} /\ wb = <<>> /\ saved = {})

NothingWritten == dirs = dirs0 /\ probes = {} /\ saved = {}

\* C3: a run that ends on a failed validation has written nothing (no
\* directory created, no probe file left, no workbook saved), and a run
\* whose input path is no directory changes nothing in the file system.
C3_AbortWritesNothing ==
    (pc \in {"aborted", "crashed"} \/ inPath \notin dirs0) => NothingWritten

\* C4 as stated: the result of sanitize_name holds only characters of
\* [A-Za-z0-9_] and is at most max_length long.
C4_OnlyAsciiWordChars ==
    sResult # NoResult
        => /\ Len(sResult) <= sMaxLength
           /\ \A i \in 1..Len(sResult) : sResult[i] \in AsciiWord

\* C4 as amended: the result is at most max_length long.  A name that fits
\* keeps its length, and each character is in [A-Za-z0-9_] or is a
\* character above ASCII kept from the name; a name that does not fit
\* becomes max_length characters, the first max_length - 3 of that kind and
\* then "...".
C4_WordCharsThenEllipsis ==
    sResult # NoResult
        => LET kept == IF Len(sName) <= sMaxLength THEN Len(sName) ELSE sMaxLength - 3
           IN  /\ Len(sResult) <= sMaxLength
               /\ Len(sResult) = (IF Len(sName) <= sMaxLength THEN kept ELSE sMaxLength)
               /\ \A i \in 1..kept :
                     \/ sResult[i] \in AsciiWord
                     \/ (sResult[i] > 127 /\ sResult[i] = sName[i])
               /\ \A i \in 1..kept : sName[i] \in AsciiWord => sResult[i] = sName[i]
               /\ \A i \in (kept + 1)..Len(sResult) : sResult[i] = Dot

\* a name with a "-" in the part that is kept, cut to max_length
C4_Witness ==
    /\ sResult # NoResult
    /\ Len(sName) > sMaxLength
    /\ \E i \in 1..(sMaxLength - 3) : sName[i] = 45 /\ sResult[i] = Underscore
    /\ Len(sResult) = sMaxLength

\* the files that are to give a sheet: .csv, not ignored, with a data row
Wanted == {i \in 1..Len(listing) :
              /\ Len(listing[i].name) >= 4
              /\ SubSeq(listing[i].name, Len(listing[i].name) - 3, Len(listing[i].name))
                    = <<46, 99, 115, 118>>
              /\ listing[i].name \notin ignore
              /\ listing[i].rows >= 1}

\* C5: when no file raised, the workbook handed to wb.save holds one sheet
\* for each file that ends in ".csv", is not ignored and has a data row,
\* no other sheet, and the sheets are in directory-listing order.
C5_SheetsAreTheWantedFiles ==
    (pc \in {"loop", "done"} /\ idx > Len(listing) /\ errored = {})
        => /\ {wb[k].file : k \in 1..Len(wb)} = Wanted
           /\ Len(wb) = Cardinality(Wanted)
           /\ \A k, l \in 1..Len(wb) : k < l => wb[k].file < wb[l].file

\* an ignored CSV with data is followed by a CSV that gives the only sheet
C5_Witness ==
    /\ pc = "done"
    /\ errored = {}
    /\ Len(listing) = 2
    /\ listing[1].name \in ignore
    /\ listing[1].rows >= 1
    /\ Len(wb) = 1
    /\ wb[1].file = 2

\* the sheets with a value, by index
NonEmptySheets == {i \in 1..Len(book) : book[i].filled # {}}

\* the cells of rows r1..r2 and columns c1..c2 of sheet i
CellsOf(i, r1, r2, c1, c2) ==
    [r \in 1..(r2 - r1 + 1) |->
        [c \in 1..(c2 - c1 + 1) |->
            IF <<r1 + r - 1, c1 + c - 1>> \in book[i].filled
            THEN 100 * i + 10 * (r1 + r - 1) + (c1 + c - 1)
            ELSE None]]

\* what the claim expects, each with its place in the order of writing
ExpectedCsvs ==
    {[name |-> book[i].name \o <<32, 45, 32>> \o book[i].tables[k].name \o <<46, 99, 115, 118>>,
      rows |-> CellsOf(i, ParseCell(StartCell(book[i].tables[k].ref)).row,
                          ParseCell(EndCell(book[i].tables[k].ref)).row,
                          ParseCell(StartCell(book[i].tables[k].ref)).col,
                          ParseCell(EndCell(book[i].tables[k].ref)).col),
      at |-> <<i, k>>] :
        <<i, k>> \in {ik \in NonEmptySheets \X (1..2) : ik[2] <= Len(book[ik[1]].tables)}}
    \cup
    {[name |-> book[i].name \o <<46, 99, 115, 118>>,
      rows |-> CellsOf(i, 1, MaxRow(book[i]), 1, MaxColumn(book[i])),
      at |-> <<i, 0>>] :
        i \in {j \in NonEmptySheets : book[j].tables = <<>>}}

Earlier(a, b) == a[1] < b[1] \/ (a[1] = b[1] /\ a[2] <= b[2])

WrittenCsvs == {[name |-> f.name, rows |-> f.rows] : f \in eFiles}

\* C6 as stated: when no sheet raised, the CSV files written are exactly:
\* one "<sheet> - <table>.csv" per table of each non-empty sheet with
\* tables, holding the rectangle of the table's reference, and one
\* "<sheet>.csv" per non-empty sheet without tables, holding every row.
C6_ExactlyTheExpectedCsvs ==
    (epc = "done" /\ eErrored = {})
        => WrittenCsvs = {[name |-> e.name, rows |-> e.rows] : e \in ExpectedCsvs}

\* C6 as amended: the files written have exactly the expected names, and
\* each holds the expected content written last under its name; that is
\* every expected file when no two of them share a name.
C6_ExpectedCsvsLastWriterWins ==
    (epc = "done" /\ eErrored = {})
        => WrittenCsvs =
             {[name |-> e.name, rows |-> e.rows] :
                 e \in {x \in ExpectedCsvs :
                           \A y \in ExpectedCsvs : y.name = x.name => Earlier(y.at, x.at)}}

\* a sheet with two tables and a sheet without tables gave three files,
\* one of a table that is a proper part of its sheet
C6_Witness ==
    /\ epc = "done"
    /\ eErrored = {}
    /\ Len(book) = 2
    /\ Len(book[1].tables) = 2
    /\ Cardinality(book[1].filled) = 4
    /\ book[2].tables = <<>>
    /\ Cardinality(eFiles) = 3

\* C7: the conversion takes a delimiter, and every CSV file of the run has
\* the delimiter chosen for the run (a comma when none is given).
C7_ChosenDelimiterUsed ==
    /\ epc # "usage_error"
    /\ \A f \in eFiles :
          f.sep = (IF eArgs.delimiter = NoDelimiter THEN <<Comma>> ELSE eArgs.delimiter)

\* C8: once the loop over the files has begun, nothing a file raises ends
\* the run: the loop reaches every file in listing order, a further step is
\* always possible until wb.save has run, and wb.save runs exactly once,
\* after the last file.
C8_ErrorsNeverAbort ==
    /\ (errored # {} \/ seen # {}) => pc \in {"loop", "done"}
    /\ pc \in {"loop", "done"}
          => /\ idx \in 1..(Len(listing) + 1)
             /\ seen = 1..(idx - 1)
             /\ saveCount = (IF pc = "done" THEN 1 ELSE 0)
             /\ pc = "done" => seen = 1..Len(listing)
             /\ pc = "loop" => ENABLED CombineNext

\* the first of two files raised, the second gave a sheet, the run saved
C8_Witness ==
    /\ pc = "done"
    /\ saveCount = 1
    /\ Len(listing) = 2
    /\ 1 \in errored
    /\ seen = {1, 2}
    /\ \E k \in 1..Len(wb) : wb[k].file = 2 /\ wb[k].table # <<>>

\* C9: the table of a sheet has the name of the sheet, and that name is
\* sanitize_name of the file name without its extension.
C9_TableNamedAsSheet ==
    \A k \in 1..Len(wb) :
        wb[k].table # <<>>
            => /\ wb[k].table[1].displayName = wb[k].title
               /\ wb[k].title = sanitize_name(Stem(listing[wb[k].file].name), DefaultMaxLength)

\* C10: the reference of a table reads as the written rectangle: from
\* column 1, row 1 to column c, row r + 1.
C10_RefIsWrittenRectangle ==
    \A k \in 1..Len(wb) :
        wb[k].table # <<>>
            => LET ref == wb[k].table[1].ref
               IN  /\ RefReadable(ref)
                   /\ ParseCell(StartCell(ref)) = [col |-> 1, row |-> 1]
                   /\ ParseCell(EndCell(ref)) = [col |-> wb[k].cols, row |-> wb[k].appended]

\* validate_and_create_output_folder has returned or raised
ValidationLeft == pc \notin {"start", "probe"}

\* C11: once validate_and_create_output_folder has returned or raised, on
\* whichever exit path (the probe could not be created, the write failed
\* after the file was opened, the delete failed, or all succeeded), the
\* output folder holds no ".write_test.tmp" file.
C11_ProbeFileRemoved ==
    ValidationLeft => outFolder \notin probes

====
